---- MODULE Spec2Model ----
(***************************************************************************)
(* Model of bin/convert_owl.py : the OWL -> FHIR conversion pipeline.      *)
(*                                                                         *)
(* Paths and file names are strings and the path arithmetic of the source  *)
(* (os.path.join, basename, dirname, str.replace, `in`, endswith, lower,   *)
(* urlparse) is computed on them character by character.  The filesystem   *)
(* is a function from the paths of existing files to a content tag, plus   *)
(* a set of existing directories.  External tools (download, cp, perl,     *)
(* robot, semsql make, runoak, the in-process OAK converter) are the       *)
(* environment: each invocation draws the tool's stdout/stderr and its     *)
(* effect on the filesystem from a small set.                              *)
(***************************************************************************)
EXTENDS Integers, Sequences, FiniteSets, TLC

VARIABLES
    fs,                 \* existing files: path -> content tag
    dirs,               \* existing directories
    pc,                 \* position of the running program
    mode,               \* "none" | "single" | "favorites" | "fallthrough"
    args,               \* keyword arguments of the current owl_to_fhir call
    input_path,         \* owl_to_fhir local
    out_filename,       \* owl_to_fhir local
    intermediary_path,  \* owl_to_fhir local
    branch,             \* which arm of the Convert if/else was taken
    result,             \* return value of owl_to_fhir
    exc,                \* exception that left owl_to_fhir
    log,                \* external invocations and deletions of the current call
    run,                \* number of the current run of the single job
    prev,               \* outcome of the previous run of the single job
    code_system_id,     \* owl_to_fhir local
    d,                  \* cli: the parsed command line
    favorites,          \* _run_favorites: the job table (indices of FAVORITE_ONTOLOGIES)
    i,                  \* _run_favorites: loop counter
    successes,          \* _run_favorites local
    fails,              \* _run_favorites local
    outcomes,           \* per job of the batch: did owl_to_fhir return or raise
    data,               \* owl_to_obograph: the graph document in the obograph file
    robot_data,         \* the graph document as robot wrote it
    proc                \* _run_shell_command local: stderr and stdout of the run

vars == <<fs, dirs, pc, mode, args, input_path, out_filename, intermediary_path,
          branch, result, exc, log, run, prev, code_system_id, d, favorites, i,
          successes, fails, outcomes, data, robot_data, proc>>

-----------------------------------------------------------------------------
(* Bounds of the model *)

\* how many times the single job is run in a row (the filesystem persists)
MaxRuns == 2
\* longest job table handed to _run_favorites
MaxFavorites == 3

-----------------------------------------------------------------------------
(* Python values *)

\* Python's None (and the CLI's default=False): a value that is no real string
None == "<None>"

Truthy(x) == x # None /\ x # ""

-----------------------------------------------------------------------------
(* str methods *)

RECURSIVE Find(_, _, _)
\* s.find(sub, i): first index >= i where sub occurs in s, 0 when it does not
Find(s, sub, k) ==
    IF k + Len(sub) - 1 > Len(s) THEN 0
    ELSE IF SubSeq(s, k, k + Len(sub) - 1) = sub THEN k
    ELSE Find(s, sub, k + 1)

RECURSIVE RFind(_, _, _)
\* s.rfind(sub): last index <= k where sub occurs in s, 0 when it does not
RFind(s, sub, k) ==
    IF k < 1 THEN 0
    ELSE IF k + Len(sub) - 1 <= Len(s) /\ SubSeq(s, k, k + Len(sub) - 1) = sub THEN k
    ELSE RFind(s, sub, k - 1)

\* sub in s
Contains(s, sub) == Find(s, sub, 1) > 0

StartsWith(s, p) == Len(p) <= Len(s) /\ SubSeq(s, 1, Len(p)) = p

EndsWith(s, p) == Len(p) <= Len(s) /\ SubSeq(s, Len(s) - Len(p) + 1, Len(s)) = p

RECURSIVE Replace(_, _, _)
\* s.replace(old, new): every non-overlapping occurrence, left to right
Replace(s, old, new) ==
    LET k == Find(s, old, 1)
    IN  IF k = 0 THEN s
        ELSE SubSeq(s, 1, k - 1) \o new
             \o Replace(SubSeq(s, k + Len(old), Len(s)), old, new)

UpperToLower ==
    [c \in {"A","B","C","D","E","F","G","H","I","J","K","L","M","N","O","P","Q",
            "R","S","T","U","V","W","X","Y","Z"} |->
        CASE c = "A" -> "a" [] c = "B" -> "b" [] c = "C" -> "c" [] c = "D" -> "d"
          [] c = "E" -> "e" [] c = "F" -> "f" [] c = "G" -> "g" [] c = "H" -> "h"
          [] c = "I" -> "i" [] c = "J" -> "j" [] c = "K" -> "k" [] c = "L" -> "l"
          [] c = "M" -> "m" [] c = "N" -> "n" [] c = "O" -> "o" [] c = "P" -> "p"
          [] c = "Q" -> "q" [] c = "R" -> "r" [] c = "S" -> "s" [] c = "T" -> "t"
          [] c = "U" -> "u" [] c = "V" -> "v" [] c = "W" -> "w" [] c = "X" -> "x"
          [] c = "Y" -> "y" [] c = "Z" -> "z"]

RECURSIVE Lower(_)
\* s.lower()
Lower(s) ==
    IF s = "" THEN ""
    ELSE LET c == SubSeq(s, 1, 1)
         IN  (IF c \in DOMAIN UpperToLower THEN UpperToLower[c] ELSE c)
             \o Lower(SubSeq(s, 2, Len(s)))

\* s.split(sep)[0]
SplitFirst(s, sep) ==
    LET k == Find(s, sep, 1)
    IN  IF k = 0 THEN s ELSE SubSeq(s, 1, k - 1)

\* s.split(sep)[1]; None stands for the IndexError when sep does not occur
SplitSecond(s, sep) ==
    LET k == Find(s, sep, 1)
    IN  IF k = 0 THEN None
        ELSE SplitFirst(SubSeq(s, k + Len(sep), Len(s)), sep)

\* '.'.join(s.split('.')[0:-1]) : s without its last dot-separated component
StripExt(s) ==
    LET k == RFind(s, ".", Len(s))
    IN  IF k = 0 THEN "" ELSE SubSeq(s, 1, k - 1)

-----------------------------------------------------------------------------
(* os.path and urllib.parse *)

RECURSIVE RStripSlash(_)
RStripSlash(s) ==
    IF s # "" /\ EndsWith(s, "/") THEN RStripSlash(SubSeq(s, 1, Len(s) - 1)) ELSE s

\* os.path.basename
Basename(p) == SubSeq(p, RFind(p, "/", Len(p)) + 1, Len(p))

\* os.path.dirname
Dirname(p) ==
    LET head == SubSeq(p, 1, RFind(p, "/", Len(p)))
    IN  IF RStripSlash(head) = "" THEN head ELSE RStripSlash(head)

\* os.path.join(a, b)
Join(a, b) ==
    IF StartsWith(b, "/") THEN b
    ELSE IF a = "" \/ EndsWith(a, "/") THEN a \o b
    ELSE a \o "/" \o b

\* urlparse(s).scheme (the characters before the first ':'; the validity of
\* the scheme's characters is not examined beyond the absence of '/')
UrlScheme(s) ==
    LET k == Find(s, ":", 1)
    IN  IF s # None /\ k > 1 /\ ~Contains(SubSeq(s, 1, k - 1), "/")
        THEN SubSeq(s, 1, k - 1) ELSE ""

\* urlparse(s).netloc : what follows "//" up to the next '/'
UrlNetloc(s) ==
    LET k    == Find(s, ":", 1)
        rest == IF UrlScheme(s) # "" THEN SubSeq(s, k + 1, Len(s)) ELSE s
    IN  IF s # None /\ StartsWith(rest, "//")
        THEN SplitFirst(SubSeq(rest, 3, Len(rest)), "/")
        ELSE ""

-----------------------------------------------------------------------------
(* Static configuration *)

BIN_DIR == "/t/bin"
PROJECT_DIR == Join(BIN_DIR, "..")
CACHE_DIR == Join(PROJECT_DIR, "cache")
OUTDIR == Join(PROJECT_DIR, "output")
ROBOT_PATH == Join(BIN_DIR, "robot")
INTERMEDIARY_TYPES == <<"obographs", "semsql">>
OWL_ON_FHIR_CONTENT_REPO_PATH == Join(Join(PROJECT_DIR, ".."), "owl-on-fhir-content")

FAVORITE_DEFAULTS ==
    [out_dir                     |-> Join(OWL_ON_FHIR_CONTENT_REPO_PATH, "output"),
     intermediary_outdir         |-> Join(OWL_ON_FHIR_CONTENT_REPO_PATH, "input"),
     include_all_predicates      |-> TRUE,
     intermediary_type           |-> "obographs",
     use_cached_intermediaries   |-> TRUE,
     retain_intermediaries       |-> TRUE,
     convert_intermediaries_only |-> FALSE]

FavoriteInput(name) == Join(Join(OWL_ON_FHIR_CONTENT_REPO_PATH, "input"), name)

\* the values of the OrderedDict, in its order
FAVORITE_ONTOLOGIES ==
    << [download_url     |-> "https://github.com/monarch-initiative/mondo/releases/latest/download/mondo.owl",
        code_system_url  |-> "http://purl.obolibrary.org/obo/mondo.owl",
        input_path       |-> FavoriteInput("mondo.owl"),
        code_system_id   |-> "mondo",
        native_uri_stems |-> {"http://purl.obolibrary.org/obo/MONDO_"}],
       [download_url     |-> "https://github.com/loinc/comp-loinc/releases/latest/download/merged_reasoned_loinc.owl",
        code_system_url  |-> "https://github.com/loinc/comp-loinc/releases/latest/download/merged_reasoned_loinc.owl",
        input_path       |-> FavoriteInput("comploinc.owl"),
        code_system_id   |-> "comp-loinc",
        native_uri_stems |-> {"https://loinc.org/"}],
       [download_url     |-> "https://github.com/obophenotype/human-phenotype-ontology/releases/latest/download/hp-full.owl",
        code_system_url  |-> "http://purl.obolibrary.org/obo/hp.owl",
        input_path       |-> FavoriteInput("hpo.owl"),
        code_system_id   |-> "HPO",
        native_uri_stems |-> {"http://purl.obolibrary.org/obo/HP_"}],
       [download_url     |-> "https://data.bioontology.org/ontologies/RXNORM/submissions/23/download?apikey=8b5b7825-538d-40e0-9e9e-5ab9274a9aeb",
        code_system_url  |-> "http://purl.bioontology.org/ontology/RXNORM",
        input_path       |-> FavoriteInput("RXNORM.ttl"),
        code_system_id   |-> "rxnorm",
        native_uri_stems |-> {"http://purl.bioontology.org/ontology/RXNORM/"}],
       [download_url     |-> "https://data.bioontology.org/ontologies/SO/submissions/304/download?apikey=8b5b7825-538d-40e0-9e9e-5ab9274a9aeb",
        code_system_url  |-> "http://purl.bioontology.org/ontology/SO",
        input_path       |-> FavoriteInput("so.owl"),
        code_system_id   |-> "sequence-ontology",
        native_uri_stems |-> {"http://purl.obolibrary.org/obo/SO_"}] >>

-----------------------------------------------------------------------------
(* The filesystem *)

\* content tags of files
\*   "src"     an ontology source (present beforehand, or downloaded)
\*   "old"     an artifact left by an earlier session
\*   "new"     an artifact an external tool wrote completely
\*   "partial" what a failing tool left behind
\*   "empty"   a file opened for writing and not written yet
\*   "patched" a graph document rewritten with the missing node declarations
\*   "fixed"   a source rewritten by the normalization script
\*   "fhir"    a CodeSystem JSON written by a projection backend

\* os.path.exists
Exists(f, ds, p) == p \in DOMAIN f \/ p \in ds

\* a file is created or overwritten
WriteFile(f, p, c) == [q \in DOMAIN f \cup {p} |-> IF q = p THEN c ELSE f[q]]

\* os.remove of an existing file
RemoveFile(f, p) == [q \in DOMAIN f \ {p} |-> f[q]]

WriteFiles(f, ps, c) == [q \in DOMAIN f \cup ps |-> IF q \in ps THEN c ELSE f[q]]

-----------------------------------------------------------------------------
(* Subprocesses *)

DumbTerminal == "Unable to create a system terminal, creating a dumb terminal"

\* variant: the 'up to date' signature is looked for first
_run_shell_command_ExistsFirst(stderr, stdout) ==
    IF stdout # "" /\ Contains(stdout, ".db' is up to date") THEN "FileExistsError"
    ELSE IF stderr # "" /\ ~Contains(stderr, DumbTerminal) THEN "RuntimeError"
    ELSE IF (stdout # "" /\ Contains(stdout, "error")) \/ Contains(stdout, "ERROR")
         THEN "RuntimeError"
    ELSE IF stdout # "" /\ Contains(stdout, "make: Nothing to be done") THEN "RuntimeError"
    ELSE "ok"

\* _run_shell_command, after subprocess.run has completed with (stderr, stdout):
\* the exception it raises, or "ok" when it returns the result
_run_shell_command(stderr, stdout) ==
    IF stderr # "" /\ ~Contains(stderr, DumbTerminal) THEN "RuntimeError"
    ELSE IF (stdout # "" /\ Contains(stdout, "error")) \/ Contains(stdout, "ERROR")
         THEN "RuntimeError"
    ELSE IF stdout # "" /\ Contains(stdout, "make: Nothing to be done") THEN "RuntimeError"
    ELSE IF stdout # "" /\ Contains(stdout, ".db' is up to date") THEN "FileExistsError"
    ELSE "ok"

\* what a tool may print on stderr
Stderrs == {"", "WARNING: " \o DumbTerminal, "Exception in thread main"}

\* what any tool may print on stdout
Stdouts == {"", "done", "an error occurred", "ERROR: cannot read"}

\* what `make` may print on stdout besides
MakeStdouts == {"make: Nothing to be done for 'all'.", "make: 'x.db' is up to date."}

\* The runs of an external tool the environment may produce: the class
\* _run_shell_command puts the run in and what the run did to its target file
\* ("none", "partial": a damaged target is left, "full": the target is complete).
\*   - a run that reports nothing wrong has produced its target;
\*   - a complete target needs the input to exist;
\*   - a run that reports 'up to date' or 'Nothing to be done' has done nothing.
\* What the tool prints is the tool's business: the signature ".db' is up to
\* date" is looked for anywhere in stdout, whatever is at the target path.
ToolRunsOf(stdouts, inputExists, targetExists) ==
    { [res |-> _run_shell_command(t[1], t[2]), eff |-> t[3]] :
        t \in { u \in Stderrs \X stdouts \X {"none", "partial", "full"} :
                  /\ (_run_shell_command(u[1], u[2]) = "ok" => u[3] = "full")
                  /\ (u[3] = "full" => inputExists)
                  /\ (Contains(u[2], "is up to date") => u[3] = "none")
                  /\ (Contains(u[2], "Nothing to be done") => u[3] = "none") } }

\* the same, tabulated once
ToolRunsTable ==
    [make \in BOOLEAN, inputExists \in BOOLEAN, targetExists \in BOOLEAN |->
        ToolRunsOf(IF make THEN Stdouts \cup MakeStdouts ELSE Stdouts,
                   inputExists, targetExists)]

ToolRuns(make, inputExists, targetExists) == ToolRunsTable[make, inputExists, targetExists]

\* what a tool run with effect eff leaves at its target path
Effect(f, path, eff, content) ==
    IF eff = "full" THEN WriteFile(f, path, content)
    ELSE IF eff = "partial" THEN WriteFile(f, path, "partial")
    ELSE f

\* one entry of the log
Event(op, path, res) == [op |-> op, path |-> path, res |-> res]

\* how a called function ends: the filesystem it leaves, its return value,
\* the exception it raises (None when it returns) and what it ran
Out(f, ds, ret, e, ev) == [fs |-> f, dirs |-> ds, ret |-> ret, exc |-> e, ev |-> ev]

\* os.makedirs(p) guarded by `if not os.path.exists(p)`
MakeDirs(f, ds, p) == IF Exists(f, ds, p) THEN ds ELSE ds \cup {p}

-----------------------------------------------------------------------------
(* download *)

\* requests.get either delivers content or raises; the file is opened for
\* writing (created, or truncated) before the request is made
download(f, ds, url, path, download_if_cached) ==
    LET ds1 == MakeDirs(f, ds, Dirname(path))
    IN  IF download_if_cached \/ ~Exists(f, ds1, path)
        THEN { Out(WriteFile(f, path, "src"), ds1, None, None,
                   <<Event("download", path, "ok")>>),
               Out(WriteFile(f, path, "empty"), ds1, None, "ConnectionError",
                   <<Event("download", path, "ConnectionError")>>) }
        ELSE { Out(f, ds1, None, None, <<>>) }

-----------------------------------------------------------------------------
(* _preprocess_rxnorm *)

\* the path the normalized copy is written to
FixedPath(path) == Replace(path, ".ttl", "-fixed.ttl")

\* the perl script rewrites the copy in place
PerlRuns(f, ds, outpath, evs) ==
    { Out(Effect(f, outpath, r.eff, "fixed"), ds,
          IF r.res = "ok" THEN outpath ELSE None,
          IF r.res = "ok" THEN None ELSE r.res,
          evs \o <<Event("perl", outpath, r.res)>>) :
        r \in ToolRuns(FALSE, outpath \in DOMAIN f, outpath \in DOMAIN f) }

\* variant: the marker is not looked for
IsFixed_Never(path) == FALSE

\* '-fixed' in path
IsFixed(path) == Contains(path, "-fixed")

_preprocess_rxnorm(f, ds, path) ==
    IF IsFixed(path) THEN { Out(f, ds, path, None, <<>>) }
    ELSE
      LET outpath == FixedPath(path)
          \* cp refuses to copy a file onto itself
          cps == ToolRuns(FALSE, path \in DOMAIN f /\ outpath # path, outpath \in DOMAIN f)
          After(r) == IF path \in DOMAIN f /\ outpath # path
                      THEN Effect(f, outpath, r.eff, f[path]) ELSE f
      IN  UNION { IF r.res = "ok"
                  THEN PerlRuns(After(r), ds, outpath, <<Event("cp", outpath, "ok")>>)
                  ELSE { Out(After(r), ds, None, r.res, <<Event("cp", outpath, r.res)>>) } :
                  r \in cps }

-----------------------------------------------------------------------------
(* owl_to_semsql *)

SemsqlOutputFilename(inpath) ==
    Replace(Replace(Replace(Basename(inpath), ".owl", ".db"), ".rdf", ".db"), ".ttl", ".db")

SemsqlOutpath(inpath) == Join(Dirname(inpath), SemsqlOutputFilename(inpath))

\* the relation-graph index file that `semsql make x.db` builds next to x.db,
\* under the name owl_to_fhir's cleanup looks for
RelationGraphPath(indir, ipath) ==
    Join(indir, Replace(Basename(ipath), ".db", "-relation-graph.tsv.gz"))

TemplateDbPath(indir) == Join(indir, ".template.db")

\* what one run of `semsql make` leaves in the working directory: the snapshot
\* and its relation-graph file when it completes, a damaged snapshot when it
\* breaks off, and in both cases possibly the scratch database .template.db
SemsqlEffect(f, inpath, outpath, eff, scratch) ==
    LET indir == Dirname(inpath)
        f1 == IF eff = "full"
              THEN WriteFiles(f, {outpath, RelationGraphPath(indir, outpath)}, "new")
              ELSE Effect(f, outpath, eff, "new")
    IN  IF scratch /\ eff # "none" THEN WriteFile(f1, TemplateDbPath(indir), "new") ELSE f1

\* variant: the cache flag is not consulted
CacheHit_Never(f, ds, outpath, use_cache) == FALSE

\* use_cache and os.path.exists(outpath)
CacheHit(f, ds, outpath, use_cache) == use_cache /\ Exists(f, ds, outpath)

\* the runs of the engine on inpath, from filesystem f
SemsqlRuns(f, inpath, outpath) ==
    { [res |-> r.res, fs |-> SemsqlEffect(f, inpath, outpath, r.eff, scratch)] :
        r \in ToolRuns(TRUE, inpath \in DOMAIN f, outpath \in DOMAIN f),
        scratch \in BOOLEAN }

\* variant: the except arm passes whatever use_cache is
SemsqlRecover_Pass(f, ds, inpath, outpath, use_cache, ev1) ==
    { Out(f, ds, outpath, None, ev1) }

\* the except FileExistsError arm, entered with filesystem f after the first run
SemsqlRecover(f, ds, inpath, outpath, use_cache, ev1) ==
    IF use_cache THEN { Out(f, ds, outpath, None, ev1) }
    ELSE IF outpath \notin DOMAIN f
         THEN { Out(f, ds, None, "FileNotFoundError", ev1) }
    ELSE { Out(r2.fs, ds,
               IF r2.res = "ok" THEN outpath ELSE None,
               IF r2.res = "ok" THEN None ELSE r2.res,
               ev1 \o <<Event("remove", outpath, "ok"), Event("semsql", outpath, r2.res)>>) :
             r2 \in SemsqlRuns(RemoveFile(f, outpath), inpath, outpath) }

owl_to_semsql(f, ds, inpath, use_cache) ==
    LET outpath == SemsqlOutpath(inpath)
    IN  IF CacheHit(f, ds, outpath, use_cache) THEN { Out(f, ds, outpath, None, <<>>) }
        ELSE UNION {
               LET ev1 == <<Event("semsql", outpath, r1.res)>>
               IN  IF r1.res = "ok" THEN { Out(r1.fs, ds, outpath, None, ev1) }
                   ELSE IF r1.res = "FileExistsError"
                        THEN SemsqlRecover(r1.fs, ds, inpath, outpath, use_cache, ev1)
                   ELSE { Out(r1.fs, ds, None, r1.res, ev1) } :
               r1 \in SemsqlRuns(f, inpath, outpath) }

-----------------------------------------------------------------------------
(* owl_to_obograph *)

ObographOutpath(inpath) == Join(CACHE_DIR, inpath \o ".obographs.json")

\* the patch of the missing node declarations: when native_uri_stems is given
\* the document is read, and rewritten when some edge names a missing native
\* node (whether it does is the document's business: both cases arise)
ObographPatch(f, ds, outpath, native_uri_stems, ev) ==
    IF native_uri_stems # {}
    THEN { Out(f, ds, outpath, None, ev),
           Out(WriteFile(f, outpath, "patched"), ds, outpath, None,
               ev \o <<Event("write", outpath, "ok")>>) }
    ELSE { Out(f, ds, outpath, None, ev) }

owl_to_obograph(f, ds, inpath, native_uri_stems, use_cache) ==
    LET outpath == ObographOutpath(inpath)
        ds1     == MakeDirs(f, ds, Dirname(outpath))
    IN  IF CacheHit(f, ds1, outpath, use_cache) THEN { Out(f, ds1, outpath, None, <<>>) }
        ELSE UNION {
               LET f1 == Effect(f, outpath, r.eff, "new")
                   ev == <<Event("robot", outpath, r.res)>>
               IN  IF r.res = "ok"
                   THEN ObographPatch(f1, ds1, outpath, native_uri_stems, ev)
                   ELSE { Out(f1, ds1, None, r.res, ev) } :
               r \in ToolRuns(FALSE, inpath \in DOMAIN f, outpath \in DOMAIN f) }

-----------------------------------------------------------------------------
(* obograph_to_fhir, semsql_to_fhir *)

\* local_dev_exists
LocalDevExists(f, ds, dev_oak_path, dev_oak_interpreter_path) ==
    /\ (IF Truthy(dev_oak_path) THEN Exists(f, ds, dev_oak_path) ELSE FALSE)
    /\ (IF Truthy(dev_oak_interpreter_path)
        THEN Exists(f, ds, dev_oak_interpreter_path) ELSE FALSE)

\* The conditional expressions that build command_str bind looser than `+`:
\* the interpreter and the dump command are part of the string only when
\* include_all_predicates is set; otherwise the string is one of the option
\* fragments or empty, and subprocess.run finds no program to start.
DevCommandIsRunnable(include_all_predicates) == include_all_predicates

\* the projection backends: a shell command (runoak, or the local OAK checkout)
ShellProjection(f, ds, op, inpath, out_path) ==
    { Out(Effect(f, out_path, r.eff, "fhir"), ds,
          IF r.res = "ok" THEN out_path ELSE None,
          IF r.res = "ok" THEN None ELSE r.res,
          <<Event(op, out_path, r.res)>>) :
        r \in ToolRuns(FALSE, inpath \in DOMAIN f, out_path \in DOMAIN f) }

\* ... and the in-process converter, which raises instead of printing
InProcessProjection(f, ds, inpath, out_path) ==
    { Out(Effect(f, out_path, eff, "fhir"), ds,
          IF eff = "full" THEN out_path ELSE None,
          IF eff = "full" THEN None ELSE "ValueError",
          <<Event("oak_inproc", out_path, IF eff = "full" THEN "ok" ELSE "ValueError")>>) :
        eff \in IF inpath \in DOMAIN f THEN {"none", "partial", "full"}
                ELSE {"none", "partial"} }

obograph_to_fhir(f, ds, inpath, out_dir, out_fname, include_all_predicates, dev_oak_path, dev_oak_interpreter_path) ==
    LET out_path == Join(out_dir, out_fname)
        ds1      == MakeDirs(f, ds, out_dir)
        local_dev_exists == LocalDevExists(f, ds1, dev_oak_path, dev_oak_interpreter_path)
    IN  IF Truthy(dev_oak_path) /\ local_dev_exists
        THEN IF DevCommandIsRunnable(include_all_predicates)
             THEN ShellProjection(f, ds1, "oak_dev", inpath, out_path)
             ELSE { Out(f, ds1, None, "FileNotFoundError", <<>>) }
        ELSE IF Truthy(dev_oak_path) /\ ~local_dev_exists
             THEN { Out(f, ds1, out_path, None, <<>>) }
        ELSE InProcessProjection(f, ds1, inpath, out_path)

semsql_to_fhir(f, ds, inpath, out_dir, out_fname) ==
    LET out_path == Join(out_dir, out_fname)
        ds1      == MakeDirs(f, ds, out_dir)
    IN  ShellProjection(f, ds1, "runoak", inpath, out_path)

-----------------------------------------------------------------------------
(* owl_to_fhir *)

\* the parameters of owl_to_fhir the model follows (code_system_url is only
\* ever interpolated into a command line) and their defaults
ParamDefaults ==
    [input_path_or_url           |-> None,
     out_dir                     |-> OUTDIR,
     out_filename                |-> None,
     include_all_predicates      |-> FALSE,
     retain_intermediaries       |-> FALSE,
     intermediary_type           |-> INTERMEDIARY_TYPES[1],
     use_cached_intermediaries   |-> FALSE,
     intermediary_outdir         |-> None,
     convert_intermediaries_only |-> FALSE,
     native_uri_stems            |-> {},
     code_system_id              |-> None,
     dev_oak_path                |-> None,
     dev_oak_interpreter_path    |-> None]

\* the call owl_to_fhir(**kw)
Params(kw) == [k \in DOMAIN ParamDefaults |-> IF k \in DOMAIN kw THEN kw[k] ELSE ParamDefaults[k]]

\* maybe_url.scheme and maybe_url.netloc
IsUrl(s) == UrlScheme(s) # "" /\ UrlNetloc(s) # ""

\* intermediary_type == 'obographs' or input_path.endswith('.ttl')
ConvertBranch(intermediary_type, inpath) ==
    IF intermediary_type = "obographs" \/ EndsWith(inpath, ".ttl") THEN "obographs" ELSE "semsql"

\* intermediary_outdir if intermediary_outdir else out_dir
IntermediaryOutdir(a) ==
    IF Truthy(a.intermediary_outdir) THEN a.intermediary_outdir ELSE a.out_dir

\* the directory the projection is told to write into
ProjectionOutDir(a) == IntermediaryOutdir(a)

\* the path owl_to_fhir returns in full mode
ReturnPath(a, fname) == Join(a.out_dir, fname)

\* variant: the intermediaries are deleted whatever the flag
KeepsIntermediaries_Never(a) == FALSE

\* `if not retain_intermediaries` guards the deletions
KeepsIntermediaries(a) == a.retain_intermediaries

\* variant: the relation graph is left behind
DeletesRelationGraph_Never(a) == FALSE

\* `if intermediary_type == 'semsql'` guards the deletion of the relation graph
DeletesRelationGraph(a) == a.intermediary_type = "semsql"

\* variant: the scratch database is an intermediary like the others
RemovesTemplateDb_UnlessRetained(f, ds, a, template_db_path) ==
    Exists(f, ds, template_db_path) /\ ~a.retain_intermediaries

\* `if os.path.exists(template_db_path)` guards its deletion, and nothing else
RemovesTemplateDb(f, ds, a, template_db_path) == Exists(f, ds, template_db_path)

\* the Cleanup section, entered with filesystem f
Cleanup(f, ds, a, inpath, ipath, fname) ==
    IF a.convert_intermediaries_only THEN Out(f, ds, ipath, None, <<>>)
    ELSE
      LET indir == Dirname(inpath)
          template_db_path == TemplateDbPath(indir)
          hasT == RemovesTemplateDb(f, ds, a, template_db_path)
          f1   == IF hasT THEN RemoveFile(f, template_db_path) ELSE f
          ev1  == IF hasT THEN <<Event("remove", template_db_path, "ok")>> ELSE <<>>
          rg   == RelationGraphPath(indir, ipath)
      IN  IF KeepsIntermediaries(a) THEN Out(f1, ds, ReturnPath(a, fname), None, ev1)
          ELSE IF ipath \notin DOMAIN f1
               THEN Out(f1, ds, None, "FileNotFoundError", ev1)
          ELSE
            LET f2  == RemoveFile(f1, ipath)
                ev2 == ev1 \o <<Event("remove", ipath, "ok")>>
            IN  IF DeletesRelationGraph(a)
                THEN IF rg \notin DOMAIN f2
                     THEN Out(f2, ds, None, "FileNotFoundError", ev2)
                     ELSE Out(RemoveFile(f2, rg), ds, ReturnPath(a, fname), None,
                              ev2 \o <<Event("remove", rg, "ok")>>)
                ELSE Out(f2, ds, ReturnPath(a, fname), None, ev2)

callVars  == <<mode, args, run, prev>>
batchVars == <<d, favorites, i, successes, fails, outcomes>>
localVars == <<input_path, out_filename, code_system_id, intermediary_path, branch, result>>
\* the variables of the calls made to one function alone
unitVars  == <<data, robot_data, proc>>

\* an exception leaves owl_to_fhir
Raise(t) == pc' = "raised" /\ exc' = [type |-> t, at |-> pc]

\* a called function has ended as o: continue at `next`, or propagate
Apply(o, next) ==
    /\ fs' = o.fs
    /\ dirs' = o.dirs
    /\ log' = log \o o.ev
    /\ IF o.exc # None THEN Raise(o.exc) ELSE pc' = next /\ exc' = exc

\* owl_to_fhir(**kw) is entered
Call(kw, m) ==
    /\ args' = Params(kw)
    /\ mode' = m
    /\ pc' = "fetch"
    /\ input_path' = None
    /\ out_filename' = None
    /\ code_system_id' = None
    /\ intermediary_path' = None
    /\ branch' = None
    /\ result' = None
    /\ exc' = None
    /\ log' = <<>>

\* "Download if necessary"
Fetch ==
    /\ UNCHANGED unitVars
    /\ pc = "fetch"
    /\ out_filename' = args.out_filename
    /\ code_system_id' = args.code_system_id
    /\ LET inp == args.input_path_or_url
           url == IF IsUrl(inp) THEN inp ELSE None
       IN  IF Truthy(url)
           THEN IF args.out_filename = None
                THEN \* None has no method replace
                     /\ Raise("AttributeError")
                     /\ input_path' = inp
                     /\ UNCHANGED <<fs, dirs, log>>
                ELSE LET path == Join(CACHE_DIR, Replace(args.out_filename, ".json", ".owl"))
                     IN  /\ input_path' = path
                         /\ \E o \in download(fs, dirs, url, path, TRUE) : Apply(o, "names")
           ELSE /\ input_path' = inp
                /\ pc' = "names"
                /\ UNCHANGED <<fs, dirs, log, exc>>
    /\ UNCHANGED <<intermediary_path, branch, result>>
    /\ UNCHANGED <<callVars, batchVars>>

\* "determine outpaths"
DeriveNames ==
    /\ UNCHANGED unitVars
    /\ pc = "names"
    /\ IF ~Truthy(out_filename) /\ ~Truthy(code_system_id) /\ input_path = None
       THEN \* os.path.basename(None)
            /\ Raise("TypeError")
            /\ UNCHANGED <<out_filename, code_system_id>>
       ELSE LET id1 == IF ~Truthy(out_filename) /\ ~Truthy(code_system_id)
                       THEN StripExt(Basename(input_path)) ELSE code_system_id
                fn  == IF ~Truthy(out_filename)
                       THEN "CodeSystem-" \o id1 \o ".json" ELSE out_filename
                id2 == IF ~Truthy(id1) /\ Truthy(fn) /\ StartsWith(fn, "CodeSystem-")
                       THEN SplitFirst(SplitSecond(fn, "-"), ".") ELSE id1
            IN  /\ out_filename' = fn
                /\ code_system_id' = id2
                /\ pc' = "preprocess"
                /\ exc' = exc
    /\ UNCHANGED <<fs, dirs, log, input_path, intermediary_path, branch, result>>
    /\ UNCHANGED <<callVars, batchVars>>

\* "Preprocessing: Special cases"
Preprocess ==
    /\ UNCHANGED unitVars
    /\ pc = "preprocess"
    /\ IF input_path = None
       THEN \* None has no method lower
            /\ Raise("AttributeError")
            /\ UNCHANGED <<fs, dirs, log, input_path>>
       ELSE IF Contains(Lower(input_path), "rxnorm") \/ Contains(Lower(out_filename), "rxnorm")
            THEN \E o \in _preprocess_rxnorm(fs, dirs, input_path) :
                    /\ input_path' = IF o.exc = None THEN o.ret ELSE input_path
                    /\ Apply(o, "convert")
       ELSE /\ pc' = "convert"
            /\ UNCHANGED <<fs, dirs, log, input_path, exc>>
    /\ UNCHANGED <<out_filename, code_system_id, intermediary_path, branch, result>>
    /\ UNCHANGED <<callVars, batchVars>>

\* "Convert": the intermediary
Convert ==
    /\ UNCHANGED unitVars
    /\ pc = "convert"
    /\ LET b == ConvertBranch(args.intermediary_type, input_path)
       IN  /\ branch' = b
           /\ \E o \in IF b = "obographs"
                        THEN owl_to_obograph(fs, dirs, input_path, args.native_uri_stems,
                                             args.use_cached_intermediaries)
                        ELSE owl_to_semsql(fs, dirs, input_path,
                                           args.use_cached_intermediaries) :
                  /\ intermediary_path' = o.ret
                  /\ Apply(o, "project")
    /\ UNCHANGED <<input_path, out_filename, code_system_id, result>>
    /\ UNCHANGED <<callVars, batchVars>>

\* "Convert": the projection to FHIR
Project ==
    /\ UNCHANGED unitVars
    /\ pc = "project"
    /\ \E o \in IF branch = "obographs"
                 THEN obograph_to_fhir(fs, dirs, intermediary_path, ProjectionOutDir(args),
                                       out_filename, args.include_all_predicates,
                                       args.dev_oak_path, args.dev_oak_interpreter_path)
                 ELSE semsql_to_fhir(fs, dirs, intermediary_path, ProjectionOutDir(args),
                                     out_filename) :
           Apply(o, "cleanup")
    /\ UNCHANGED <<localVars, callVars, batchVars>>

\* `if convert_intermediaries_only` and "Cleanup"
CleanupAndReturn ==
    /\ UNCHANGED unitVars
    /\ pc = "cleanup"
    /\ LET o == Cleanup(fs, dirs, args, input_path, intermediary_path, out_filename)
       IN  /\ Apply(o, "returned")
           /\ result' = o.ret
    /\ UNCHANGED <<input_path, out_filename, code_system_id, intermediary_path, branch>>
    /\ UNCHANGED <<callVars, batchVars>>

-----------------------------------------------------------------------------
(* _run_favorites *)

\* the keyword arguments of the owl_to_fhir call of the loop: kwargs (the
\* arguments of _run_favorites that are not None) and the two of the job
FavoriteKwargs(fav, cli_d) ==
    [k \in DOMAIN FAVORITE_DEFAULTS
            \cup {"dev_oak_path", "dev_oak_interpreter_path", "out_filename",
                  "input_path_or_url"} |->
        IF k \in DOMAIN FAVORITE_DEFAULTS THEN FAVORITE_DEFAULTS[k]
        ELSE IF k = "out_filename" THEN "CodeSystem-" \o fav.code_system_id \o ".json"
        ELSE IF k = "input_path_or_url"
             THEN (IF Truthy(fav.input_path) THEN fav.input_path ELSE fav.download_url)
        ELSE cli_d[k]]

\* variant: the outcome is always recorded against the first job
CurrentFavorite_First == FAVORITE_ONTOLOGIES[favorites[1]]

\* the job of the current pass of the loop
CurrentFavorite == FAVORITE_ONTOLOGIES[favorites[i]]

\* for d in favorites.values(): ... try: owl_to_fhir(...)
NextFavorite ==
    /\ UNCHANGED unitVars
    /\ pc = "loop"
    /\ i < Len(favorites)
    /\ i' = i + 1
    /\ Call(FavoriteKwargs(FAVORITE_ONTOLOGIES[favorites[i + 1]], d), "favorites")
    /\ UNCHANGED <<fs, dirs, run, prev, d, favorites, successes, fails, outcomes>>

\* what the try block does after the call, and the except block: the job
\* dictionaries have no key 'id', so successes.append(d['id']) raises KeyError,
\* which the except clause catches like a failure of the conversion
RecordOutcome ==
    /\ UNCHANGED unitVars
    /\ mode = "favorites"
    /\ pc \in {"returned", "raised"}
    /\ IF pc = "returned" /\ "id" \in DOMAIN CurrentFavorite
       THEN /\ successes' = Append(successes, CurrentFavorite["id"])
            /\ fails' = fails
       ELSE /\ fails' = Append(fails, CurrentFavorite.code_system_id)
            /\ successes' = successes
    /\ outcomes' = Append(outcomes, pc)
    /\ pc' = "loop"
    /\ UNCHANGED <<fs, dirs, exc, log, localVars, callVars, d, favorites, i>>

\* print('SUMMARY') ... and return
Summary ==
    /\ UNCHANGED unitVars
    /\ pc = "loop"
    /\ i = Len(favorites)
    /\ pc' = "summary"
    /\ UNCHANGED <<fs, dirs, exc, log, localVars, callVars, batchVars>>

-----------------------------------------------------------------------------
(* cli *)

\* del d['favorites']
DelFavorites(cli_d) == [k \in DOMAIN cli_d \ {"favorites"} |-> cli_d[k]]

\* d = vars(parser.parse_args()); if d['favorites']: _run_favorites(...)
\* and, when the flag is not set, del d['favorites']; owl_to_fhir(**d)
Cli ==
    /\ UNCHANGED unitVars
    /\ pc = "cli"
    /\ IF d.favorites
       THEN /\ mode' = "favorites"
            /\ pc' = "loop"
            /\ i' = 0
            /\ successes' = <<>>
            /\ fails' = <<>>
            /\ outcomes' = <<>>
            /\ UNCHANGED <<args, exc, log, localVars>>
       ELSE /\ Call(DelFavorites(d), "single")
            /\ UNCHANGED <<i, successes, fails, outcomes>>
    /\ UNCHANGED <<fs, dirs, run, prev, d, favorites>>

\* the two statements that follow the `if d['favorites']` block, reached
\* when _run_favorites has returned
CliAfterFavorites ==
    /\ UNCHANGED unitVars
    /\ pc = "summary"
    /\ Call(DelFavorites(d), "fallthrough")
    /\ UNCHANGED <<fs, dirs, run, prev, batchVars>>

\* the same command line is run again, on the files the last run left
Rerun ==
    /\ UNCHANGED unitVars
    /\ mode = "single"
    /\ pc \in {"returned", "raised"}
    /\ run < MaxRuns
    /\ run' = run + 1
    /\ prev' = [status |-> pc, result |-> result]
    /\ pc' = "cli"
    /\ UNCHANGED <<fs, dirs, mode, args, exc, log, localVars, batchVars>>

-----------------------------------------------------------------------------
(* The command lines and the filesystems the program is started on *)

DevOakPath == "/oak"
DevOakInterpreterPath == "/oak/venv/python"

CliD(fav, inp, fname, csid, iap, typ, cache, retain, only, stems, dev) ==
    [favorites                   |-> fav,
     input_path_or_url           |-> inp,
     out_dir                     |-> OUTDIR,
     out_filename                |-> fname,
     code_system_id              |-> csid,
     include_all_predicates      |-> iap,
     native_uri_stems            |-> stems,
     intermediary_type           |-> typ,
     use_cached_intermediaries   |-> cache,
     retain_intermediaries       |-> retain,
     convert_intermediaries_only |-> only,
     dev_oak_path                |-> dev[1],
     dev_oak_interpreter_path    |-> dev[2]]

Sources == {"/local/mondo.owl", "/local/RXNORM.ttl", "/local/go.rdf", "http://host/ontology.owl"}

\* -n and -s: neither, a code system id alone, a file name alone
Namings == {<<None, None>>, <<None, "myid">>, <<"CodeSystem-x.json", None>>}

\* -p, -d and -D: no local OAK; a local OAK that exists, with and without
\* -p; a local OAK whose interpreter does not exist
DevSettings ==
    {<<FALSE, <<None, None>>>>,
     <<TRUE,  <<DevOakPath, DevOakInterpreterPath>>>>,
     <<FALSE, <<DevOakPath, DevOakInterpreterPath>>>>,
     <<FALSE, <<DevOakPath, "/gone/python">>>>}

SingleInvocations ==
    { CliD(FALSE, inp, n[1], n[2], dv[1], typ, cache, retain, only, stems, dv[2]) :
        inp \in Sources, n \in Namings, dv \in DevSettings,
        typ \in {"obographs", "semsql"}, cache \in BOOLEAN, retain \in BOOLEAN,
        only \in BOOLEAN, stems \in {{}, {"http://purl.obolibrary.org/obo/MONDO_"}} }

\* -f alone, and -f together with -i
FavoritesInvocations ==
    { CliD(TRUE, inp, None, None, FALSE, "obographs", FALSE, FALSE, FALSE, {},
           <<None, None>>) : inp \in {None, "/local/mondo.owl"} }

RECURSIVE SortedSeq(_)
SortedSeq(S) ==
    IF S = {} THEN <<>>
    ELSE LET m == CHOOSE x \in S : \A y \in S : x <= y
         IN  <<m>> \o SortedSeq(S \ {m})

\* the job tables: the entries of FAVORITE_ONTOLOGIES, in their order, up to
\* MaxFavorites of them
FavoriteTables ==
    { SortedSeq(S) : S \in { T \in SUBSET (1..Len(FAVORITE_ONTOLOGIES)) :
                                 Cardinality(T) >= 1 /\ Cardinality(T) <= MaxFavorites } }

\* the local source files a command line names
LocalSources(cli_d, table) ==
    (IF cli_d.input_path_or_url # None /\ ~IsUrl(cli_d.input_path_or_url)
     THEN {cli_d.input_path_or_url} ELSE {})
    \cup (IF cli_d.favorites
          THEN { FAVORITE_ONTOLOGIES[table[k]].input_path : k \in 1..Len(table) } ELSE {})

\* the local files a command line converts: its local sources, the download
\* target of its URL, and their normalized copies
ConvertInputs(cli_d, table) ==
    LET base == LocalSources(cli_d, table)
                \cup (IF IsUrl(cli_d.input_path_or_url) /\ cli_d.out_filename # None
                      THEN {Join(CACHE_DIR, Replace(cli_d.out_filename, ".json", ".owl"))}
                      ELSE {})
    IN  base \cup { FixedPath(p) : p \in base }

\* artifacts an earlier session may have left for input p
OldArtifacts(p) ==
    { ObographOutpath(p), SemsqlOutpath(p),
      RelationGraphPath(Dirname(p), SemsqlOutpath(p)), TemplateDbPath(Dirname(p)) }

\* The filesystems: at most one of the sources is missing; either nothing
\* else is there or an earlier session has left its intermediaries.
InitialFilesystems(cli_d, table) ==
    { LET present == LocalSources(cli_d, table) \ missing
          olds    == IF old THEN UNION { OldArtifacts(p) : p \in ConvertInputs(cli_d, table) }
                     ELSE {}
      IN  [p \in present \cup olds \cup {DevOakInterpreterPath} |->
              IF p \in present \/ p = DevOakInterpreterPath THEN "src" ELSE "old"] :
        missing \in {{}} \cup { {p} : p \in LocalSources(cli_d, table) },
        old \in BOOLEAN }

Init ==
    \E cli_d \in SingleInvocations \cup FavoritesInvocations :
      \E table \in IF cli_d.favorites THEN FavoriteTables ELSE {<<>>} :
        \E f \in InitialFilesystems(cli_d, table) :
          /\ d = cli_d
          /\ favorites = table
          /\ fs = f
          /\ dirs = { Dirname(p) : p \in DOMAIN f \cup LocalSources(cli_d, table) }
                    \cup {DevOakPath}
          /\ pc = "cli"
          /\ mode = "none"
          /\ args = None
          /\ input_path = None
          /\ out_filename = None
          /\ code_system_id = None
          /\ intermediary_path = None
          /\ branch = None
          /\ result = None
          /\ exc = None
          /\ log = <<>>
          /\ run = 1
          /\ prev = [status |-> "none", result |-> None]
          /\ i = 0
          /\ successes = <<>>
          /\ fails = <<>>
          /\ outcomes = <<>>
          /\ data = None
          /\ robot_data = None
          /\ proc = None

Next ==
    \/ Cli
    \/ Fetch
    \/ DeriveNames
    \/ Preprocess
    \/ Convert
    \/ Project
    \/ CleanupAndReturn
    \/ NextFavorite
    \/ RecordOutcome
    \/ Summary
    \/ CliAfterFavorites
    \/ Rerun

Spec == Init /\ [][Next]_vars

-----------------------------------------------------------------------------
(* Calls of one function alone: owl_to_obograph's patch of the node list *)

\* longest node list and edge list of a graph document
MaxNodes == 2
MaxEdges == 2

\* the node ids a graph document may mention, and the stems lists given
NodeIds == {"http://a/X_1", "http://a/X_2", "http://b/Y_1"}
StemLists == {{}, {"http://a/X_"}, {"http://a/X_2", "http://b/"}}

SeqsUpTo(S, n) == UNION { [1..k -> S] : k \in 0..n }

\* data['graphs'][0] as robot may write it
GraphDocuments ==
    { [nodes |-> ns, edges |-> es] :
        ns \in SeqsUpTo({ [id |-> x] : x \in NodeIds }, MaxNodes),
        es \in SeqsUpTo({ [sub |-> x, obj |-> y] : x \in NodeIds, y \in NodeIds }, MaxEdges) }

\* set([node['id'] for node in nodes])
node_ids(nodes) == { nodes[k].id : k \in 1..Len(nodes) }

\* edge_subs.union(edge_objs)
edge_ids(edges) ==
    { edges[k].sub : k \in 1..Len(edges) } \cup { edges[k].obj : k \in 1..Len(edges) }

\* variant: the filter lets every id through
IsNative_Any(x, stems) == TRUE

\* any([x.startswith(y) for y in native_uri_stems])
IsNative(x, stems) == \E y \in stems : StartsWith(x, y)

\* the ids of the list `missing` after the filter
Missing(doc, stems) ==
    { x \in edge_ids(doc.edges) \ node_ids(doc.nodes) : IsNative(x, stems) }

\* the orders a list built from set S may have (a set of str is iterated in
\* an order that changes from one interpreter run to the next)
Orderings(S) ==
    { q \in [1..Cardinality(S) -> S] :
        \A a, b \in 1..Cardinality(S) : a # b => q[a] # q[b] }

\* for node_id in missing: nodes.append({'id': node_id})
PatchedDocuments(doc, stems) ==
    { [doc EXCEPT !.nodes = doc.nodes \o [k \in 1..Len(q) |-> [id |-> q[k]]]] :
        q \in Orderings(Missing(doc, stems)) }

\* the other variables of the program, while one function is called alone
UnitIdle ==
    /\ out_filename = None
    /\ code_system_id = None
    /\ branch = None
    /\ result = None
    /\ exc = None
    /\ run = 1
    /\ prev = [status |-> "none", result |-> None]
    /\ d = None
    /\ favorites = <<>>
    /\ i = 0
    /\ successes = <<>>
    /\ fails = <<>>
    /\ outcomes = <<>>

\* owl_to_obograph(inpath, native_uri_stems) at the point where robot has
\* returned without a complaint and has written its document
PatchInit ==
    \E doc \in GraphDocuments, stems \in StemLists :
      LET inpath  == "/local/mondo.owl"
          outpath == ObographOutpath(inpath)
      IN  /\ data = doc
          /\ robot_data = doc
          /\ proc = None
          /\ pc = "patch"
          /\ mode = "owl_to_obograph"
          /\ args = Params([input_path_or_url |-> inpath, native_uri_stems |-> stems])
          /\ input_path = inpath
          /\ intermediary_path = None
          /\ fs = [q \in {inpath, outpath} |-> IF q = inpath THEN "src" ELSE "new"]
          /\ dirs = {Dirname(inpath), Dirname(outpath)}
          /\ log = <<Event("robot", outpath, "ok")>>
          /\ UnitIdle

\* "Patch missing roots" and `return outpath`
PatchObograph ==
    /\ pc = "patch"
    /\ LET outpath == ObographOutpath(input_path)
           stems   == args.native_uri_stems
       IN  /\ \E o \in ObographPatch(fs, dirs, outpath, stems, <<>>) :
                /\ (o.ev # <<>>) <=> (stems # {} /\ Missing(data, stems) # {})
                /\ fs' = o.fs
                /\ log' = log \o o.ev
                /\ intermediary_path' = o.ret
           /\ IF stems # {}
              THEN \E doc \in PatchedDocuments(data, stems) : data' = doc
              ELSE data' = data
    /\ pc' = "patched"
    /\ UNCHANGED <<dirs, mode, args, input_path, out_filename, branch, result, exc, run, prev,
                   code_system_id, batchVars, robot_data, proc>>

-----------------------------------------------------------------------------
(* Calls of one function alone: _preprocess_rxnorm *)

\* the paths the preprocessor is called with: a Bioportal file, its
\* normalized copy, a file in a directory whose name has the marker, and a
\* file that is no .ttl
PreprocessPaths ==
    {"/local/RXNORM.ttl", "/local/RXNORM-fixed.ttl", "/data-fixed/RXNORM.ttl",
     "/local/rxnorm.owl"}

\* _preprocess_rxnorm(path) is about to be called; the file, and a file at
\* the path of the normalized copy, may be there or not
PreprocessInit ==
    \E path \in PreprocessPaths :
      \E present \in SUBSET {path, FixedPath(path)} :
        /\ input_path = path
        /\ fs = [q \in present |-> IF q = path THEN "src" ELSE "old"]
        /\ dirs = {Dirname(path)}
        /\ pc = "call_preprocess"
        /\ mode = "_preprocess_rxnorm"
        /\ args = None
        /\ intermediary_path = None
        /\ log = <<>>
        /\ data = None
        /\ robot_data = None
        /\ proc = None
        /\ UnitIdle

\* the call ends as o
UnitApply(o, next) ==
    /\ Apply(o, next)
    /\ result' = o.ret

\* _preprocess_rxnorm(path)
CallPreprocess ==
    /\ pc = "call_preprocess"
    /\ \E o \in _preprocess_rxnorm(fs, dirs, input_path) : UnitApply(o, "preprocessed")
    /\ UNCHANGED <<mode, args, input_path, out_filename, intermediary_path, branch, run, prev,
                   code_system_id, batchVars, unitVars>>

\* _preprocess_rxnorm(path) again, with the path the first call returned
ReapplyPreprocess ==
    /\ pc = "preprocessed"
    /\ input_path' = result
    /\ \E o \in _preprocess_rxnorm(fs, dirs, result) : UnitApply(o, "reapplied")
    /\ UNCHANGED <<mode, args, out_filename, intermediary_path, branch, run, prev,
                   code_system_id, batchVars, unitVars>>

-----------------------------------------------------------------------------
(* Calls of one function alone: _run_shell_command *)

\* what the subprocess may have printed: nothing, the benign warning alone
\* and with an error after it, an error
ShellStderrs ==
    Stderrs \cup {"WARNING: " \o DumbTerminal \o "; Exception in thread main"}

\* ... and on stdout: the outputs of the tools, with the markers alone and
\* together, and 'Error' spelled in a way that is no marker
ShellStdouts ==
    Stdouts \cup MakeStdouts
        \cup {"ERROR: make: 'x.db' is up to date.",
              "make: 'x.db' is up to date. an error occurred",
              "make: Nothing to be done for 'all'. make: 'x.db' is up to date.",
              "Error", "x.db is up to date"}

\* subprocess.run has completed
ShellInit ==
    \E e \in ShellStderrs, o \in ShellStdouts :
        /\ proc = [stderr |-> e, stdout |-> o]
        /\ pc = "call_shell"
        /\ mode = "_run_shell_command"
        /\ fs = <<>>
        /\ dirs = {}
        /\ args = None
        /\ input_path = None
        /\ intermediary_path = None
        /\ log = <<>>
        /\ data = None
        /\ robot_data = None
        /\ UnitIdle

\* the if/elif chain on stderr and stdout, and `return result`
ClassifyShell ==
    /\ pc = "call_shell"
    /\ LET r == _run_shell_command(proc.stderr, proc.stdout)
       IN  IF r = "ok"
           THEN pc' = "shell_returned" /\ result' = proc /\ exc' = exc
           ELSE Raise(r) /\ result' = result
    /\ UNCHANGED <<fs, dirs, log, mode, args, input_path, out_filename, intermediary_path,
                   branch, run, prev, code_system_id, batchVars, unitVars>>

UnitInit == PatchInit \/ PreprocessInit \/ ShellInit

UnitNext ==
    \/ PatchObograph
    \/ CallPreprocess
    \/ ReapplyPreprocess
    \/ ClassifyShell

UnitSpec == UnitInit /\ [][UnitNext]_vars

-----------------------------------------------------------------------------
(* Vocabulary of the properties *)

\* the events of sequence evs whose op is in ops
EventsOf(evs, ops) == SelectSeq(evs, LAMBDA e : e.op \in ops)

DownloadOps   == {"download"}
NormalizeOps  == {"cp", "perl"}
ConversionOps == {"robot", "semsql"}
ProjectionOps == {"runoak", "oak_dev", "oak_inproc"}
EngineOps     == DownloadOps \cup NormalizeOps \cup ConversionOps \cup ProjectionOps

\* x occurs in sequence q
InSeq(q, x) == \E k \in 1..Len(q) : q[k] = x

\* the identifier of the k-th job of the batch
JobId(k) == FAVORITE_ONTOLOGIES[favorites[k]].code_system_id

\* an owl_to_fhir call is under way or has ended
InCall == pc \in {"fetch", "names", "preprocess", "convert", "project", "cleanup",
                  "returned", "raised"}

\* the path the intermediary of the current call is looked for at
DeterministicOutpath ==
    IF ConvertBranch(args.intermediary_type, input_path) = "obographs"
    THEN ObographOutpath(input_path) ELSE SemsqlOutpath(input_path)

-----------------------------------------------------------------------------
(* Properties *)

\* C1: when _run_favorites has gone through its jobs, every job whose
\* owl_to_fhir call returned is in successes and every job whose call raised
\* is in fails.
C1_BatchRecordsOutcomes ==
    pc = "summary" =>
        \A k \in 1..Len(favorites) :
            /\ (outcomes[k] = "returned" => InSeq(successes, JobId(k)))
            /\ (outcomes[k] = "raised" => InSeq(fails, JobId(k)))

\* C2: a conversion step that finds use_cached_intermediaries set and the
\* intermediary at its deterministic path returns that path, runs no tool and
\* leaves every file as it is.
C2_CachedIntermediaryReused ==
    [][ (pc = "convert" /\ args.use_cached_intermediaries
            /\ DeterministicOutpath \in DOMAIN fs)
        => /\ pc' = "project"
           /\ intermediary_path' = DeterministicOutpath
           /\ fs' = fs
           /\ log' = log ]_vars

\* a cached relational snapshot, and a cached graph document, have been
\* handed to the projection untouched
C2_Witness ==
    /\ pc = "project"
    /\ args.use_cached_intermediaries
    /\ EventsOf(log, ConversionOps) = <<>>
    /\ intermediary_path \in DOMAIN fs
    /\ fs[intermediary_path] = "old"

\* C3: a job that asks for semsql on a source that is not an .owl file is
\* converted by the obographs arm, and semsql is never run for it.
C3_NonOwlFallsBackToObographs ==
    (InCall /\ branch # None /\ args.intermediary_type = "semsql"
        /\ ~EndsWith(input_path, ".owl"))
    => /\ branch = "obographs"
       /\ EventsOf(log, {"semsql"}) = <<>>

\* C4 as stated: the second of two successful runs of the same command line
\* with retain_intermediaries and use_cached_intermediaries returns the path
\* the first returned and invokes no external engine at all.
C4_SecondRunInvokesNothing ==
    (mode = "single" /\ run >= 2 /\ pc = "returned" /\ prev.status = "returned"
        /\ args.retain_intermediaries /\ args.use_cached_intermediaries)
    => /\ result = prev.result
       /\ EventsOf(log, EngineOps) = <<>>

\* C4 amended: the run that follows a successful run of the same command
\* line with retain_intermediaries and use_cached_intermediaries never invokes
\* the conversion engine (robot, semsql), and when it succeeds it returns the
\* path the first returned.
C4_SecondRunConvertsNothing ==
    (mode = "single" /\ run >= 2 /\ InCall /\ prev.status = "returned"
        /\ args.retain_intermediaries /\ args.use_cached_intermediaries)
    => /\ EventsOf(log, ConversionOps) = <<>>
       /\ (pc = "returned" => result = prev.result)

\* a second successful run that converted nothing and projected again
C4_Witness ==
    /\ mode = "single" /\ run = 2 /\ pc = "returned" /\ prev.status = "returned"
    /\ args.retain_intermediaries /\ args.use_cached_intermediaries
    /\ result = prev.result
    /\ EventsOf(log, ConversionOps) = <<>>
    /\ EventsOf(log, ProjectionOps) # <<>>

\* C5: when the cleanup of a full-mode job of the semsql arm returns: without
\* retain_intermediaries neither the snapshot nor its relation-graph file
\* exists afterwards; with it the snapshot exists and the relation-graph file
\* is still there if it was.
C5_RetentionOfSnapshot ==
    [][ (pc = "cleanup" /\ pc' = "returned" /\ branch = "semsql"
            /\ ~args.convert_intermediaries_only)
        => LET rg == RelationGraphPath(Dirname(input_path), intermediary_path)
           IN  IF args.retain_intermediaries
               THEN /\ intermediary_path \in DOMAIN fs'
                    /\ (rg \in DOMAIN fs => rg \in DOMAIN fs')
               ELSE /\ intermediary_path \notin DOMAIN fs'
                    /\ rg \notin DOMAIN fs' ]_vars

\* a semsql job that ran the engine and whose cleanup deleted both files
C5_Witness ==
    /\ pc = "returned" /\ branch = "semsql"
    /\ ~args.convert_intermediaries_only /\ ~args.retain_intermediaries
    /\ EventsOf(log, {"semsql"}) # <<>>
    /\ Len(EventsOf(log, {"remove"})) >= 2
    /\ intermediary_path \notin DOMAIN fs

\* C6: a job run with convert_intermediaries_only returns the intermediary
\* path and has run no projection and deleted nothing in cleanup.
C6_IntermediariesOnlySkipsProjection ==
    (pc = "returned" /\ args.convert_intermediaries_only)
    => /\ result = intermediary_path
       /\ EventsOf(log, ProjectionOps) = <<>>
       /\ ~InSeq(log, Event("remove", TemplateDbPath(Dirname(input_path)), "ok"))

\* C7: when a full-mode job returns after a projection backend has written
\* its output, the CodeSystem file is at the returned path
\* <out_dir>/<out_filename>.
C7_OutputAtReturnedPath ==
    (pc = "returned" /\ ~args.convert_intermediaries_only
        /\ \E k \in 1..Len(log) : log[k].op \in ProjectionOps /\ log[k].res = "ok")
    => /\ result = Join(args.out_dir, out_filename)
       /\ result \in DOMAIN fs
       /\ fs[result] = "fhir"

\* C8: a job given no output file name gets past the fetch and naming steps,
\* with the name CodeSystem-<id>.json, the id being the code system id given
\* or else the source's basename without its extension (CodeSystem-mondo.json
\* for /local/mondo.owl).
C8_FilenameDerivedBeforeConversion ==
    (pc \in {"names", "preprocess", "convert", "project", "cleanup", "returned", "raised"}
        /\ args.out_filename = None /\ args.input_path_or_url # None)
    => /\ ~(pc = "raised" /\ exc.at \in {"fetch", "names"})
       /\ (pc # "names" /\ ~IsUrl(args.input_path_or_url) =>
              out_filename = "CodeSystem-"
                  \o (IF args.code_system_id # None THEN args.code_system_id
                      ELSE StripExt(Basename(args.input_path_or_url)))
                  \o ".json")
       /\ (pc # "names" /\ args.input_path_or_url = "/local/mondo.owl"
              /\ args.code_system_id = None => out_filename = "CodeSystem-mondo.json")
       /\ (pc # "names" /\ IsUrl(args.input_path_or_url) => Truthy(out_filename))

\* C9: with the favorites flag set no owl_to_fhir call is made from the
\* other flags of the command line.
C9_FavoritesRunsOnlyFavorites == d.favorites => mode # "fallthrough"

\* C10: owl_to_semsql runs the engine at most twice, and twice only after
\* the first run reported 'up to date' with caching off, the output being
\* deleted in between; with caching on the report ends the conversion with
\* the output path; with caching off the existing output is deleted and the
\* engine run once more (a report that finds no output to delete ends in
\* os.remove's FileNotFoundError).
C10_SingleForcedRetry ==
    (InCall /\ branch = "semsql") =>
        LET calls   == EventsOf(log, {"semsql"})
            outpath == SemsqlOutpath(input_path)
            marks   == EventsOf(log, {"semsql", "remove"})
        IN  /\ Len(calls) <= 2
            /\ (Len(calls) = 2 =>
                   /\ calls[1].res = "FileExistsError"
                   /\ ~args.use_cached_intermediaries
                   /\ marks[2] = Event("remove", outpath, "ok")
                   /\ marks[3].op = "semsql")
            /\ (Len(calls) >= 1 /\ calls[1].res = "FileExistsError" =>
                   IF args.use_cached_intermediaries
                   THEN Len(calls) = 1 /\ intermediary_path = outpath
                   ELSE \/ Len(calls) = 2
                        \/ /\ pc = "raised" /\ exc.type = "FileNotFoundError"
                           /\ outpath \notin DOMAIN fs)

\* the engine reported 'up to date' with caching off, the snapshot was deleted
\* and the second run of the engine succeeded
C10_Witness ==
    /\ pc = "project" /\ branch = "semsql"
    /\ ~args.use_cached_intermediaries
    /\ Len(EventsOf(log, {"semsql"})) = 2
    /\ InSeq(log, Event("remove", intermediary_path, "ok"))

\* C11: no owl_to_semsql or owl_to_obograph call ends in FileExistsError,
\* whatever the engine reports on the first run and on the forced retry.
C11_AlreadyExistsNotSurfaced ==
    ~(pc = "raised" /\ exc.at = "convert" /\ exc.type = "FileExistsError")

\* how often id x is in node list q
Occurrences(q, x) == Cardinality({ k \in 1..Len(q) : q[k].id = x })

\* C12: after the patch with stems given, every id an edge names as subject
\* or object that was not in the node list is in the rewritten list if it
\* starts with one of the stems, and is not if it starts with none; the nodes
\* that were there are all still there, in place, and no id is in the list
\* more often than before (once, if it is new).
C12_MissingNativeNodesAdded ==
    (pc = "patched" /\ args.native_uri_stems # {}) =>
        LET before == robot_data.nodes
            after  == data.nodes
            had    == node_ids(before)
            refs   == edge_ids(robot_data.edges)
        IN  /\ \A x \in refs \ had :
                  IF \E y \in args.native_uri_stems : StartsWith(x, y)
                  THEN x \in node_ids(after)
                  ELSE x \notin node_ids(after)
            /\ Len(after) >= Len(before)
            /\ SubSeq(after, 1, Len(before)) = before
            /\ \A x \in NodeIds :
                  Occurrences(after, x) =
                      IF x \in had THEN Occurrences(before, x)
                      ELSE IF x \in node_ids(after) THEN 1 ELSE 0
            /\ data.edges = robot_data.edges

\* the patch has added a native node and has left a foreign one out
C12_Witness ==
    /\ pc = "patched"
    /\ Len(data.nodes) > Len(robot_data.nodes)
    /\ \E x \in edge_ids(robot_data.edges) : x \notin node_ids(data.nodes)
    /\ InSeq(log, Event("write", intermediary_path, "ok"))

\* how often x is in sequence q
CountIn(q, x) == Cardinality({ k \in 1..Len(q) : q[k] = x })

\* C13: _run_favorites starts the jobs one by one in the order of the table,
\* each when all the jobs before it have ended, whether they failed or not;
\* when the summary is printed every job has been attempted and its
\* identifier is exactly once in successes and fails taken together.
C13_EveryJobAttemptedOnce ==
    /\ [](pc = "summary" =>
             /\ i = Len(favorites)
             /\ Len(outcomes) = Len(favorites)
             /\ Len(successes) + Len(fails) = Len(favorites)
             /\ \A k \in 1..Len(favorites) : CountIn(successes \o fails, JobId(k)) = 1)
    /\ [][ i' # i =>
             /\ i' = i + 1
             /\ i' <= Len(favorites)
             /\ Len(outcomes) = i
             /\ pc' = "fetch"
             /\ args'.out_filename = "CodeSystem-" \o JobId(i') \o ".json" ]_vars

\* a batch of three whose first job failed and whose second job returned
C13_Witness ==
    /\ pc = "summary"
    /\ Len(favorites) = 3
    /\ outcomes[1] = "raised"
    /\ outcomes[2] = "returned"

\* the stages of owl_to_fhir, in the order of the source
StageOrder == <<"fetch", "names", "preprocess", "convert", "project", "cleanup", "returned">>

StageRank(p) == CHOOSE k \in 1..Len(StageOrder) : StageOrder[k] = p

\* C14: within an owl_to_fhir call the stages follow one another in the
\* order fetch, (naming,) preprocess, convert, project, cleanup, a stage being
\* left only for the next one or by an exception; and whenever the projection
\* is about to start, the intermediary path exists and no conversion run of
\* the call was classified as a failure.
C14_StagesInOrderOnValidArtifacts ==
    /\ [][ (InSeq(StageOrder, pc) /\ pc # "returned" /\ pc' # pc) =>
              \/ pc' = "raised"
              \/ StageRank(pc') = StageRank(pc) + 1 ]_vars
    /\ [](pc = "project" =>
             /\ intermediary_path \in DOMAIN fs
             /\ \A k \in 1..Len(log) :
                   log[k].op \in ConversionOps => log[k].res # "RuntimeError")

\* C15: when a full-mode job returns, there is no file .template.db in the
\* directory of the input file, whether retain_intermediaries is set or not.
C15_TemplateDbDeleted ==
    (pc = "returned" /\ ~args.convert_intermediaries_only)
    => Join(Dirname(input_path), ".template.db") \notin DOMAIN fs

\* a job that keeps its intermediaries has deleted the scratch database the
\* engine left
C15_Witness ==
    /\ pc = "returned" /\ ~args.convert_intermediaries_only
    /\ args.retain_intermediaries
    /\ EventsOf(log, {"semsql"}) # <<>>
    /\ InSeq(log, Event("remove", Join(Dirname(input_path), ".template.db"), "ok"))
    /\ intermediary_path \in DOMAIN fs

\* C16: a call of _preprocess_rxnorm with a path that has the marker '-fixed'
\* returns that path, runs no command and writes no file; and a call with the
\* path an earlier call returned does the same.
C16_PreprocessIdempotentOnFixed ==
    [][ /\ (pc = "call_preprocess" /\ Contains(input_path, "-fixed")) =>
              /\ pc' = "preprocessed"
              /\ result' = input_path
              /\ fs' = fs
              /\ dirs' = dirs
              /\ log' = log
        /\ pc = "preprocessed" =>
              /\ pc' = "reapplied"
              /\ result' = result
              /\ fs' = fs
              /\ dirs' = dirs
              /\ log' = log ]_vars

\* the preprocessor has normalized a file and has then been called with the
\* path of the copy
C16_Witness ==
    /\ pc = "reapplied"
    /\ InSeq(log, Event("perl", result, "ok"))
    /\ Contains(result, "-fixed")
    /\ result \in DOMAIN fs /\ fs[result] = "fixed"

\* C17: a conversion step that returns the intermediary from the cache
\* (use_cached_intermediaries set, no engine run) never returns a file that a
\* failed engine run has left damaged.
C17_DamagedFileNotCacheHit ==
    (pc = "project" /\ args.use_cached_intermediaries
        /\ EventsOf(log, ConversionOps) = <<>> /\ intermediary_path \in DOMAIN fs)
    => fs[intermediary_path] # "partial"

\* the conditions the classification of a completed subprocess speaks of
StderrIsFailure == proc.stderr # "" /\ ~Contains(proc.stderr, DumbTerminal)
StdoutHasError  == Contains(proc.stdout, "error") \/ Contains(proc.stdout, "ERROR")
StdoutUpToDate  == Contains(proc.stdout, ".db' is up to date")
StdoutNothingToBeDone == Contains(proc.stdout, "make: Nothing to be done")
ShellDone == mode = "_run_shell_command" /\ pc \in {"shell_returned", "raised"}

\* C18 as stated: _run_shell_command raises RuntimeError whenever stderr is a
\* failure or stdout has 'error' or 'ERROR'; it raises FileExistsError only
\* when neither holds and stdout has the up-to-date signature; it returns
\* when stderr is empty or benign and stdout has none of these markers.
C18_ClassificationAsStated ==
    ShellDone =>
        /\ (StderrIsFailure \/ StdoutHasError
               => pc = "raised" /\ exc.type = "RuntimeError")
        /\ (pc = "raised" /\ exc.type = "FileExistsError"
               => ~StderrIsFailure /\ ~StdoutHasError /\ StdoutUpToDate)
        /\ (~StderrIsFailure /\ ~StdoutHasError /\ ~StdoutUpToDate
               => pc = "shell_returned")

\* C18 amended: RuntimeError is raised exactly when stderr is a failure or
\* stdout has 'error', 'ERROR' or 'make: Nothing to be done'; FileExistsError
\* exactly when none of these holds and stdout has the up-to-date signature;
\* otherwise the result is returned.
C18_ClassificationPrecedence ==
    ShellDone =>
        LET hard == StderrIsFailure \/ StdoutHasError \/ StdoutNothingToBeDone
        IN  /\ (hard <=> pc = "raised" /\ exc.type = "RuntimeError")
            /\ (~hard /\ StdoutUpToDate <=> pc = "raised" /\ exc.type = "FileExistsError")
            /\ (~hard /\ ~StdoutUpToDate <=> pc = "shell_returned" /\ result = proc)

\* a run that printed both an error marker and the up-to-date signature, and
\* nothing bad on stderr, has been classified as a hard failure
C18_Witness ==
    /\ ShellDone /\ pc = "raised" /\ exc.type = "RuntimeError"
    /\ ~StderrIsFailure /\ StdoutHasError /\ StdoutUpToDate

\* C19: a job that asks for semsql and is converted by the obographs arm
\* (a .ttl source), run without retain_intermediaries, gets through its
\* cleanup: no exception leaves the cleanup, and when the job has returned it
\* has returned <out_dir>/<out_filename>, the graph document is gone and
\* nothing else but the scratch database has been deleted.
C19_TtlCleanupDeletesGraphOnly ==
    (InCall /\ args.intermediary_type = "semsql" /\ branch = "obographs"
        /\ ~args.retain_intermediaries /\ ~args.convert_intermediaries_only)
    => /\ ~(pc = "raised" /\ exc.at = "cleanup")
       /\ (pc = "returned" =>
              /\ result = Join(args.out_dir, out_filename)
              /\ intermediary_path \notin DOMAIN fs
              /\ \A k \in 1..Len(log) :
                    log[k].op = "remove" =>
                        log[k].path \in {intermediary_path,
                                         Join(Dirname(input_path), ".template.db")})

\* C20: when obograph_to_fhir has returned, exactly one projection backend
\* (the local OAK command or the in-process converter) has been run by it.
C20_ExactlyOneBackend ==
    (pc = "cleanup" /\ branch = "obographs")
    => Len(EventsOf(log, {"oak_dev", "oak_inproc"})) = 1

\* C21: when an exception leaves owl_to_fhir, every file the call has
\* deleted (intermediary, side artifact or output) is on disk: the failed job
\* has removed none of its files.
C21_FailedJobDeletesNothing ==
    pc = "raised" /\ mode \in {"single", "favorites", "fallthrough"}
    => \A k \in 1..Len(log) : log[k].op = "remove" => log[k].path \in DOMAIN fs

\* C22: when _preprocess_rxnorm has failed in its rewrite script (perl), no
\* file is at the path of the normalized copy.
C22_FailedRewriteLeavesNoFixedFile ==
    (mode = "_preprocess_rxnorm" /\ pc = "raised"
        /\ \E k \in 1..Len(log) : log[k].op = "perl" /\ log[k].res # "ok")
    => Replace(input_path, ".ttl", "-fixed.ttl") \notin DOMAIN fs

\* C23: when the request of download raises, every file that was on disk
\* before the call, the one at the destination path included, is still there
\* with the content it had.
C23_FailedDownloadKeepsFile ==
    [][ (pc = "fetch" /\ pc' = "raised" /\ exc'.type = "ConnectionError")
        => \A p \in DOMAIN fs : p \in DOMAIN fs' /\ fs'[p] = fs[p] ]_vars

====
